---- MODULE Spec2Model ----
(***************************************************************************)
(* A model of the two programs of the repository:                          *)
(*   dwi_quality.py  the DWI quality pipeline (quality.main) and its       *)
(*                   helpers hist_calc, mask_calc, form_bins;              *)
(*   nhdr_write.py   the NIFTI -> NHDR header writer (main) and its        *)
(*                   helpers read_bvecs, read_bvals, bvec_scaling.         *)
(* Floating point numbers are modelled as exact rationals [n, d] in lowest *)
(* terms (d > 0); d = 0 stands for the IEEE values NaN (n = 0) and +-inf   *)
(* (n = +-1).  numpy arrays are records [shape, at] with 0-based index     *)
(* tuples, so that axis arguments, broadcasting and out-of-range indices   *)
(* behave as they do in numpy.                                             *)
(***************************************************************************)
EXTENDS Integers, Sequences, FiniteSets, TLC

VARIABLES
    \* ---- dwi_quality.py, quality.main ----
    inp,            \* the run's inputs: files, switches, and what dipy returns
    pc,             \* position in quality.main
    fa_low_high, md_low_high, mk_low_high,   \* self.*_low_high (python lists)
    grad_axis,      \* the gradient axis the input file declares
    data,           \* the (normalised, masked) volume
    fa_mask, md_mask, mk_mask,
    bse_data, minOverGrads, minOverGradsNegativeMask,
    evals, fa, md, mk, mkFlag,               \* what the dipy fits return
    evals_zero_mask,
    negative,       \* first density of the minOverGrads histogram
    saved,          \* the images written by save_map, by file name suffix
    printed,        \* the histograms printed so far, in order
    summary,        \* the percentages of the conclusion
    err,            \* the exception that ended quality.main, or "none"
    \* ---- direct calls of hist_calc / form_bins ----
    tcall,          \* the call: function name and arguments
    tpc,            \* "call" before the call, "returned" after it
    tret,           \* its return value
    \* ---- nhdr_write.py, main ----
    nin,            \* command line and the files' content
    npc,            \* position in main
    encoding,
    out,            \* lines written to sys.stdout while it is the header file
    fstate,         \* the header file f: "none", "open", "closed"
    stdout,         \* what sys.stdout refers to: "console" or "f"
    mf, bvecs, bvals, b_max, ind,
    nerr            \* the exception that ended main, or "none"

qvars == <<inp, pc, fa_low_high, md_low_high, mk_low_high, grad_axis, data, fa_mask,
           md_mask, mk_mask, bse_data, minOverGrads, minOverGradsNegativeMask,
           evals, fa, md, mk, mkFlag, evals_zero_mask,
           negative, saved, printed, summary, err>>
tvars == <<tcall, tpc, tret>>
nvars == <<nin, npc, encoding, out, fstate, stdout, mf, bvecs, bvals, b_max,
           ind, nerr>>
vars == <<qvars, tvars, nvars>>

(***************************************************************************)
(* Bounds of the model.                                                    *)
(***************************************************************************)
\* values of a scalar field / interval end points are k/Unit, |k| <= MaxK
Unit == 1
MaxK == 2
\* direct calls of hist_calc: field length and number of edges
MaxLen == 2
MaxEdges == 3
\* the volume: NVox x 1 x 1 voxels, NGrad gradient-table entries, signal
\* intensities 0..MaxSignal
NVox == 2
NGrad == 2
MaxSignal == 2
\* nhdr_write: gradient files of at most MaxN entries, b-values k*k for
\* k <= MaxB, b-vector components k/2 for k <= MaxComp
MaxN == 2
MaxB == 2
MaxComp == 2

(***************************************************************************)
(* Exact rationals standing for python / numpy floats.                     *)
(***************************************************************************)
Abs(x) == IF x < 0 THEN -x ELSE x

RECURSIVE GCD(_, _)
GCD(a, b) == IF b = 0 THEN a ELSE GCD(b, a % b)

\* n/d in lowest terms; d = 0 gives NaN (n = 0) or +-inf
R(n, d) ==
    IF d = 0 THEN [n |-> IF n > 0 THEN 1 ELSE IF n < 0 THEN -1 ELSE 0, d |-> 0]
    ELSE LET g == GCD(Abs(n), Abs(d))
             s == IF d < 0 THEN -1 ELSE 1
         IN  [n |-> s * (n \div g), d |-> s * (d \div g)]

I(k) == [n |-> k, d |-> 1]
NaN == [n |-> 0, d |-> 0]
IsNaN(x) == x.d = 0 /\ x.n = 0
IsFinite(x) == x.d > 0

\* comparisons of finite values (the model's fields hold no NaN or inf)
RLt(x, y) == x.n * y.d < y.n * x.d
RLe(x, y) == x.n * y.d <= y.n * x.d
RGt(x, y) == RLt(y, x)
RAdd(x, y) == R(x.n * y.d + y.n * x.d, x.d * y.d)
RSub(x, y) == R(x.n * y.d - y.n * x.d, x.d * y.d)
RMul(x, y) == R(x.n * y.n, x.d * y.d)
\* IEEE division: 0/0 is NaN, x/0 is +-inf
RDiv(x, y) == R(x.n * y.d, x.d * y.n)

RECURSIVE SeqSum(_)
SeqSum(s) == IF s = <<>> THEN 0 ELSE Head(s) + SeqSum(Tail(s))

RECURSIVE RSeqSum(_)
RSeqSum(s) == IF s = <<>> THEN I(0) ELSE RAdd(Head(s), RSeqSum(Tail(s)))

\* list.sort() / sorted(): insertion sort of a sequence of rationals
RECURSIVE Insert(_, _)
Insert(x, s) ==
    IF s = <<>> THEN <<x>>
    ELSE IF RLe(x, Head(s)) THEN <<x>> \o s
    ELSE <<Head(s)>> \o Insert(x, Tail(s))

RECURSIVE Sort(_)
Sort(s) == IF s = <<>> THEN <<>> ELSE Insert(Head(s), Sort(Tail(s)))

RECURSIVE RMaxSeq(_)
RMaxSeq(s) ==
    IF Len(s) = 1 THEN s[1]
    ELSE LET m == RMaxSeq(Tail(s)) IN IF RLt(m, Head(s)) THEN Head(s) ELSE m

RECURSIVE RMinSeq(_)
RMinSeq(s) ==
    IF Len(s) = 1 THEN s[1]
    ELSE LET m == RMinSeq(Tail(s)) IN IF RLt(Head(s), m) THEN Head(s) ELSE m

(***************************************************************************)
(* numpy arrays: [shape |-> <<n1,..,nk>>, at |-> [index tuples -> value]]. *)
(***************************************************************************)
Idx(shape) ==
    CASE Len(shape) = 1 -> {<<i>> : i \in 0..(shape[1] - 1)}
      [] Len(shape) = 2 -> {<<i, j>> : i \in 0..(shape[1] - 1), j \in 0..(shape[2] - 1)}
      [] Len(shape) = 3 -> {<<i, j, k>> : i \in 0..(shape[1] - 1), j \in 0..(shape[2] - 1),
                                          k \in 0..(shape[3] - 1)}
      [] Len(shape) = 4 -> {<<i, j, k, l>> : i \in 0..(shape[1] - 1), j \in 0..(shape[2] - 1),
                                             k \in 0..(shape[3] - 1), l \in 0..(shape[4] - 1)}

Arr(shape, f(_)) == [shape |-> shape, at |-> [ix \in Idx(shape) |-> f(ix)]]

\* every array of the given shape with elements in S
Arrays(shape, S) == {[shape |-> shape, at |-> g] : g \in [Idx(shape) -> S]}

\* array.sum() of an integer array
ArrSum(a) ==
    LET RECURSIVE Go(_)
        Go(S) == IF S = {} THEN 0
                 ELSE LET x == CHOOSE y \in S : TRUE IN a.at[x] + Go(S \ {x})
    IN  Go(DOMAIN a.at)

(***************************************************************************)
(* dwi_quality.py: hist_calc, mask_calc, form_bins.                        *)
(***************************************************************************)
inf == 65535

\* a histogram whose bins are closed on the right instead of the left
NpHistogramRightClosed(a, bins) ==
    LET N == Len(bins)
        below(e) == Cardinality({ix \in DOMAIN a.at : RLt(a.at[ix], e)})
        upto(e) == Cardinality({ix \in DOMAIN a.at : RLe(a.at[ix], e)})
        cum(i) == IF i = 1 THEN below(bins[1]) ELSE upto(bins[i])
    IN  [i \in 1..(N - 1) |-> cum(i + 1) - cum(i)]

\* np.histogram(a, bins=bins)[0] for an explicit edge list: the counts come
\* from cumulative searches (searchsorted left for all edges but the last,
\* right for the last), over the flattened array.  Bin i counts
\* bins[i] <= x < bins[i+1], the last bin also counts x = bins[-1]; elements
\* outside the edges are not counted.
NpHistogram(a, bins) ==
    LET N == Len(bins)
        below(e) == Cardinality({ix \in DOMAIN a.at : RLt(a.at[ix], e)})
        upto(e) == Cardinality({ix \in DOMAIN a.at : RLe(a.at[ix], e)})
        cum(i) == IF i = N THEN upto(bins[N]) ELSE below(bins[i])
    IN  [i \in 1..(N - 1) |-> cum(i + 1) - cum(i)]

\* try: hist[np.isnan] = 0 / except: pass.  np.isnan is the function object,
\* not a boolean mask: the indexing raises IndexError, which the bare except
\* swallows, so hist is left as it is.
NanToZero(hist) == hist

hist_calc(a, bins) ==
    LET temp == NpHistogram(a, bins)
        total == SeqSum(temp)
        hist == [i \in 1..(Len(bins) - 1) |-> RDiv(I(temp[i]), I(total))]
    IN  NanToZero(hist)

\* C = (M < interval[0]) | (M > interval[1]);  return C*1
mask_calc(M, interval) ==
    LET f(ix) == IF RLt(M.at[ix], interval[1]) \/ RGt(M.at[ix], interval[2])
                 THEN 1 ELSE 0
    IN  Arr(M.shape, f)

\* an edge list that is left in the order of insertion
form_binsUnsorted(interval) ==
    IF RLt(RMul(interval[1], interval[2]), I(0))
    THEN LET l1 == Append(interval, I(0))
             l2 == IF RGt(RMaxSeq(l1), I(1)) THEN Append(l1, I(1)) ELSE l1
             l3 == IF RLt(RMinSeq(l2), I(-1)) THEN Append(l2, I(-1)) ELSE l2
         IN  [ret |-> l3, arg |-> l3]
    ELSE LET m == RDiv(RSeqSum(interval), I(Len(interval)))
         IN  [ret |-> <<interval[1], m, interval[2]>>, arg |-> interval]

\* form_bins returns the edge list; in the straddling branch append() and
\* sort() act on the caller's list object, in the other branch a new list is
\* bound and the caller's list is untouched.  [ret, arg]: the value returned
\* and the caller's list after the call.
form_bins(interval) ==
    IF RLt(RMul(interval[1], interval[2]), I(0))
    THEN LET l1 == Append(interval, I(0))
             l2 == IF RGt(RMaxSeq(l1), I(1)) THEN Append(l1, I(1)) ELSE l1
             l3 == IF RLt(RMinSeq(l2), I(-1)) THEN Append(l2, I(-1)) ELSE l2
             s  == Sort(l3)
         IN  [ret |-> s, arg |-> s]
    ELSE LET m == RDiv(RSeqSum(interval), I(Len(interval)))
         IN  [ret |-> Sort(<<interval[1], m, interval[2]>>), arg |-> interval]

(***************************************************************************)
(* Direct calls of hist_calc and form_bins with bounded arguments.         *)
(***************************************************************************)
Values == {R(k, Unit) : k \in (-MaxK)..MaxK}

\* sorted python lists [low, high]
Intervals == {p \in Values \X Values : RLe(p[1], p[2])}

\* a finite set of rationals as an ascending list
RECURSIVE Ascending(_)
Ascending(S) ==
    IF S = {} THEN <<>>
    ELSE LET m == CHOOSE x \in S : \A y \in S : RLe(x, y)
         IN  <<m>> \o Ascending(S \ {m})

\* edge lists handed to hist_calc: strictly increasing lists of 2..MaxEdges
\* edges, and the lists [a, a, a] that form_bins returns for low = high
Bins == {Ascending(S) : S \in {T \in SUBSET (Values \cup {I(-inf), I(inf)}) :
                                Cardinality(T) \in 2..MaxEdges}}
        \cup {<<v, v, v>> : v \in Values}

\* the fields handed to hist_calc: 1-D arrays of 1..MaxLen values
Fields == UNION {Arrays(<<n>>, Values) : n \in 1..MaxLen}

InitT ==
    /\ tcall \in [fn : {"hist_calc"}, a : Fields, bins : Bins]
                 \cup [fn : {"form_bins"}, interval : Intervals]
    /\ tpc = "call"
    /\ tret = "pending"

IdleT == tcall = "none" /\ tpc = "idle" /\ tret = "none"

CallHistCalc ==
    /\ tpc = "call"
    /\ tcall.fn = "hist_calc"
    /\ tret' = hist_calc(tcall.a, tcall.bins)
    /\ tpc' = "returned"
    /\ UNCHANGED <<tcall, qvars, nvars>>

CallFormBins ==
    /\ tpc = "call"
    /\ tcall.fn = "form_bins"
    /\ tret' = form_bins(tcall.interval)
    /\ tpc' = "returned"
    /\ UNCHANGED <<tcall, qvars, nvars>>

NextT == CallHistCalc \/ CallFormBins

(***************************************************************************)
(* The numpy operations quality.main applies to the volume.                *)
(***************************************************************************)
\* positions of a python axis number in a 1-based shape / index tuple
RemoveAt(s, k) == SubSeq(s, 1, k - 1) \o SubSeq(s, k + 1, Len(s))
InsertAt(s, k, v) == SubSeq(s, 1, k - 1) \o <<v>> \o SubSeq(s, k, Len(s))
SetAt(s, k, v) == SubSeq(s, 1, k - 1) \o <<v>> \o SubSeq(s, k + 1, Len(s))

\* np.moveaxis(a, source, 3) of a 4-D array: the other axes keep their order
moveaxis(a, source) ==
    LET sh == Append(RemoveAt(a.shape, source + 1), a.shape[source + 1])
        f(ix) == a.at[InsertAt(SubSeq(ix, 1, 3), source + 1, ix[4])]
    IN  Arr(sh, f)

\* dipy's applymask(vol, mask): vol * mask[..., None] for a 3-D mask
applymask(vol, mask) ==
    LET f(ix) == RMul(vol.at[ix], I(mask.at[SubSeq(ix, 1, 3)]))
    IN  Arr(vol.shape, f)

\* np.where(bvals == 0)[0] and np.where(bvals != 0)[0]: 0-based positions
RECURSIVE WhereFrom(_, _, _)
WhereFrom(bv, i, zero) ==
    IF i > Len(bv) THEN <<>>
    ELSE (IF (bv[i] = 0) = zero THEN <<i - 1>> ELSE <<>>) \o WhereFrom(bv, i + 1, zero)
Where_b0s(bv) == WhereFrom(bv, 1, TRUE)
Where_dwi(bv) == WhereFrom(bv, 1, FALSE)

\* data[..., idxs].mean(-1)
MeanLast(a, idxs) ==
    LET f(ix) == RDiv(RSeqSum([j \in 1..Len(idxs) |-> a.at[Append(ix, idxs[j])]]),
                      I(Len(idxs)))
    IN  Arr(SubSeq(a.shape, 1, 3), f)

\* a baseline that is left as the mean of the b0 values
ClampNothing(a) == a

\* bse_data[bse_data < 1] = 1.
ClampBelowOne(a) ==
    LET f(ix) == IF RLt(a.at[ix], I(1)) THEN I(1) ELSE a.at[ix]
    IN  Arr(a.shape, f)

\* np.expand_dims(a, axis)
expand_dims(a, axis) ==
    LET f(ix) == a.at[RemoveAt(ix, axis + 1)]
    IN  Arr(InsertAt(a.shape, axis + 1, 1), f)

\* np.repeat(a, n, axis): every element n times in a row along axis
repeat(a, n, axis) ==
    LET f(ix) == a.at[SetAt(ix, axis + 1, ix[axis + 1] \div n)]
    IN  Arr(SetAt(a.shape, axis + 1, a.shape[axis + 1] * n), f)

\* np.take(a, idxs, axis) raises IndexError for an index past the axis
TakeOk(a, idxs, axis) == \A j \in 1..Len(idxs) : idxs[j] < a.shape[axis + 1]
take(a, idxs, axis) ==
    LET f(ix) == a.at[SetAt(ix, axis + 1, idxs[ix[axis + 1] + 1])]
    IN  Arr(SetAt(a.shape, axis + 1, Len(idxs)), f)

\* broadcasting of two arrays of the same number of axes
BroadcastOk(s1, s2) ==
    \A j \in 1..Len(s1) : s1[j] = s2[j] \/ s1[j] = 1 \/ s2[j] = 1
BroadcastShape(s1, s2) ==
    [j \in 1..Len(s1) |-> IF s1[j] = 1 THEN s2[j] ELSE s1[j]]
Bc(ix, sh) == [j \in 1..Len(sh) |-> IF sh[j] = 1 THEN 0 ELSE ix[j]]
Tup(s) == SubSeq(s, 1, Len(s))
ArrSub(a, b) ==
    LET f(ix) == RSub(a.at[Tup(Bc(ix, a.shape))], b.at[Tup(Bc(ix, b.shape))])
    IN  Arr(Tup(BroadcastShape(a.shape, b.shape)), f)
ArrDiv(a, b) ==
    LET f(ix) == RDiv(a.at[Tup(Bc(ix, a.shape))], b.at[Tup(Bc(ix, b.shape))])
    IN  Arr(Tup(BroadcastShape(a.shape, b.shape)), f)

\* np.min(a, axis=axis)
ArrMin(a, axis) ==
    LET f(ix) == RMinSeq([k \in 1..a.shape[axis + 1] |->
                             a.at[InsertAt(ix, axis + 1, k - 1)]])
    IN  Arr(RemoveAt(a.shape, axis + 1), f)

\* (a < 0) * 1
NegativeMask(a) ==
    LET f(ix) == IF RLt(a.at[ix], I(0)) THEN 1 ELSE 0
    IN  Arr(a.shape, f)

\* evals_zero = evals < 0.; (e[...,0] | e[...,1] | e[...,2]) * 1
EvalsZeroMask(ev) ==
    LET f(ix) == IF \E k \in 0..2 : RLt(ev.at[Append(ix, k)], I(0)) THEN 1 ELSE 0
    IN  Arr(SubSeq(ev.shape, 1, 3), f)

(***************************************************************************)
(* dwi_quality.py: quality.main, one action per stage.                     *)
(***************************************************************************)
IdleQ ==
    /\ inp = "none" /\ pc = "idle" /\ err = "none"
    /\ fa_low_high = "none" /\ md_low_high = "none" /\ mk_low_high = "none"
    /\ grad_axis = "none" /\ data = "none"
    /\ fa_mask = "none" /\ md_mask = "none" /\ mk_mask = "none"
    /\ bse_data = "none" /\ minOverGrads = "none"
    /\ minOverGradsNegativeMask = "none"
    /\ evals = "none" /\ fa = "none" /\ md = "none" /\ mk = "none"
    /\ mkFlag = "none" /\ evals_zero_mask = "none"
    /\ negative = "none" /\ saved = "none" /\ printed = <<>> /\ summary = "none"

\* the state main starts in, for the given inputs
StartQ(i) ==
    /\ inp = i /\ pc = "load" /\ err = "none"
    /\ fa_low_high = i.fa_sw /\ md_low_high = i.md_sw /\ mk_low_high = i.mk_sw
    /\ grad_axis = "unbound" /\ data = "unbound"
    /\ fa_mask = "unbound" /\ md_mask = "unbound" /\ mk_mask = "unbound"
    /\ bse_data = "unbound" /\ minOverGrads = "unbound"
    /\ minOverGradsNegativeMask = "unbound"
    /\ evals = "unbound" /\ fa = "unbound" /\ md = "unbound" /\ mk = "unbound"
    /\ mkFlag = "unbound" /\ evals_zero_mask = "unbound"
    /\ negative = "unbound" /\ saved = <<>> /\ printed = <<>>
    /\ summary = "unbound"

Raise(e) == pc' = "raised" /\ err' = e

\* lines 117-163: the switches are parsed and sorted, the volume is read,
\* its gradient axis moved last (nrrd) and the mask applied
Load ==
    /\ pc = "load"
    /\ fa_low_high' = Sort(fa_low_high)
    /\ md_low_high' = Sort(md_low_high)
    /\ mk_low_high' = Sort(mk_low_high)
    /\ IF inp.fmt = "nifti"
       THEN /\ grad_axis' = 3
            /\ IF Len(inp.raw.shape) # 4
               THEN Raise("AttributeError") /\ UNCHANGED data
               ELSE /\ data' = applymask(inp.raw, inp.mask)
                    /\ pc' = "fit" /\ UNCHANGED err
       ELSE /\ grad_axis' = inp.grad_axis
            /\ data' = applymask(IF inp.grad_axis # 3
                                 THEN moveaxis(inp.raw, inp.grad_axis)
                                 ELSE inp.raw, inp.mask)
            /\ pc' = "fit" /\ UNCHANGED err
    /\ UNCHANGED <<inp, fa_mask, md_mask, mk_mask, bse_data, minOverGrads,
                   minOverGradsNegativeMask, evals, fa, md, mk, mkFlag,
                   evals_zero_mask, negative, saved, printed, summary>>
    /\ UNCHANGED <<tvars, nvars>>

\* lines 165-184: the tensor fit, the multi-shell check and the kurtosis fit
\* are dipy's; inp.dipy holds what they return for this volume
Fit ==
    /\ pc = "fit"
    /\ evals' = inp.dipy.evals
    /\ fa' = inp.dipy.fa
    /\ md' = inp.dipy.md
    /\ evals_zero_mask' = EvalsZeroMask(inp.dipy.evals)
    /\ mkFlag' = inp.dipy.mkFlag
    /\ mk' = IF inp.dipy.mkFlag THEN inp.dipy.mk ELSE mk
    /\ pc' = "range"
    /\ UNCHANGED <<inp, err, fa_low_high, md_low_high, mk_low_high, grad_axis,
                   data, fa_mask, md_mask, mk_mask, bse_data, minOverGrads,
                   minOverGradsNegativeMask, negative, saved, printed, summary>>
    /\ UNCHANGED <<tvars, nvars>>

\* lines 187-188
RangeMasks ==
    /\ pc = "range"
    /\ fa_mask' = mask_calc(fa, fa_low_high)
    /\ md_mask' = mask_calc(md, md_low_high)
    /\ pc' = "drop"
    /\ UNCHANGED <<inp, err, fa_low_high, md_low_high, mk_low_high, grad_axis,
                   data, mk_mask, bse_data, minOverGrads,
                   minOverGradsNegativeMask, evals, fa, md, mk, mkFlag,
                   evals_zero_mask, negative, saved, printed, summary>>
    /\ UNCHANGED <<tvars, nvars>>

\* lines 190-207: min over the gradients of (b0 - Gi) / b0, for the volume
\* vol (gradient axis last by now), the b-values bv and the axis number ax
\* handed to expand_dims, repeat, take and min.  status is the exception
\* numpy raises, or "ok".
SignalDropCalc(vol, bv, ax) ==
    LET where_b0s == Where_b0s(bv)
        where_dwi == Where_dwi(bv)
        bse == ClampBelowOne(MeanLast(vol, where_b0s))
        extend_bse == repeat(expand_dims(bse, ax), Len(where_dwi), ax)
        curtail_dwi == take(vol, where_dwi, ax)
        m == ArrMin(ArrSub(extend_bse, curtail_dwi), ax)
        ratio == ArrDiv(m, bse)
    IN  IF ~TakeOk(vol, where_dwi, ax)
        THEN [status |-> "IndexError", bse |-> bse]
        ELSE IF \/ ~BroadcastOk(extend_bse.shape, curtail_dwi.shape)
                \/ ~BroadcastOk(m.shape, bse.shape)
        THEN [status |-> "ValueError", bse |-> bse]
        ELSE [status |-> "ok", bse |-> bse, minOverGrads |-> ratio,
              mask |-> NegativeMask(ratio)]

\* main hands grad_axis, the axis the input file declared
SignalDrop ==
    /\ pc = "drop"
    /\ LET r == SignalDropCalc(data, inp.bvals, grad_axis)
       IN  /\ bse_data' = r.bse
           /\ IF r.status # "ok"
              THEN /\ Raise(r.status)
                   /\ UNCHANGED <<minOverGrads, minOverGradsNegativeMask>>
              ELSE /\ minOverGrads' = r.minOverGrads
                   /\ minOverGradsNegativeMask' = r.mask
                   /\ pc' = "hist" /\ UNCHANGED err
    /\ UNCHANGED <<inp, fa_low_high, md_low_high, mk_low_high, grad_axis,
                   data, fa_mask, md_mask, mk_mask, evals, fa, md, mk, mkFlag,
                   evals_zero_mask, negative, saved, printed, summary>>
    /\ UNCHANGED <<tvars, nvars>>

\* lines 209-229: the histograms.  form_bins is handed the list objects
\* self.fa_low_high, self.md_low_high and self.mk_low_high themselves.
Histograms ==
    /\ pc = "hist"
    /\ LET b0 == <<I(-inf), I(0), I(inf)>>
           h1 == hist_calc(minOverGrads, b0)
           h2 == hist_calc(evals, b0)
           bfa == form_bins(fa_low_high)
           bmd == form_bins(md_low_high)
           bmk == form_bins(mk_low_high)
       IN  /\ negative' = h1[1]
           /\ fa_low_high' = bfa.arg
           /\ md_low_high' = bmd.arg
           /\ mk_low_high' = IF mkFlag THEN bmk.arg ELSE mk_low_high
           /\ printed' = <<[of |-> "minOverGrads", bins |-> b0, hist |-> h1],
                           [of |-> "evals", bins |-> b0, hist |-> h2],
                           [of |-> "fa", bins |-> bfa.ret,
                            hist |-> hist_calc(fa, bfa.ret)],
                           [of |-> "md", bins |-> bmd.ret,
                            hist |-> hist_calc(md, bmd.ret)]>>
                         \o (IF mkFlag
                             THEN <<[of |-> "mk", bins |-> bmk.ret,
                                     hist |-> hist_calc(mk, bmk.ret)]>>
                             ELSE <<>>)
    /\ pc' = "save"
    /\ UNCHANGED <<inp, err, grad_axis, data, fa_mask, md_mask, mk_mask,
                   bse_data, minOverGrads, minOverGradsNegativeMask, evals, fa,
                   md, mk, mkFlag, evals_zero_mask, saved, summary>>
    /\ UNCHANGED <<tvars, nvars>>

\* lines 231-256: the images are written; the mk mask is computed here
Save ==
    /\ pc = "save"
    /\ LET mkm == mask_calc(mk, mk_low_high)
       IN  /\ mk_mask' = IF mkFlag THEN mkm ELSE mk_mask
           /\ saved' = <<[name |-> "_minOverGrads", img |-> minOverGrads],
                         [name |-> "_minOverGradsMask", img |-> minOverGradsNegativeMask],
                         [name |-> "_evalsZeroMask", img |-> evals_zero_mask]>>
                       \o (IF mkFlag
                           THEN <<[name |-> "_MK", img |-> mk],
                                  [name |-> "_MK_mask", img |-> mkm]>>
                           ELSE <<>>)
                       \o <<[name |-> "_FA", img |-> fa],
                            [name |-> "_FA_mask", img |-> fa_mask],
                            [name |-> "_MD", img |-> md],
                            [name |-> "_MD_mask", img |-> md_mask]>>
    /\ pc' = "conclusion"
    /\ UNCHANGED <<inp, err, fa_low_high, md_low_high, mk_low_high, grad_axis,
                   data, fa_mask, md_mask, bse_data, minOverGrads,
                   minOverGradsNegativeMask, evals, fa, md, mk, mkFlag,
                   evals_zero_mask, negative, printed, summary>>
    /\ UNCHANGED <<tvars, nvars>>

\* x.sum() / N_mask * 100
Percent(count, N_mask) == RMul(RDiv(I(count), I(N_mask)), I(100))

\* lines 259-267: the conclusion
Conclusion ==
    /\ pc = "conclusion"
    /\ LET N_mask == ArrSum(inp.mask)
       IN  summary' =
             [below_b0 |-> RMul(negative, I(100)),
              neg_eval |-> Percent(ArrSum(evals_zero_mask), N_mask),
              fa |-> Percent(ArrSum(fa_mask), N_mask),
              md |-> Percent(ArrSum(md_mask), N_mask),
              mk |-> IF mkFlag THEN Percent(ArrSum(mk_mask), N_mask)
                     ELSE "not printed"]
    /\ pc' = "done"
    /\ UNCHANGED <<inp, err, fa_low_high, md_low_high, mk_low_high, grad_axis,
                   data, fa_mask, md_mask, mk_mask, bse_data, minOverGrads,
                   minOverGradsNegativeMask, evals, fa, md, mk, mkFlag,
                   evals_zero_mask, negative, saved, printed>>
    /\ UNCHANGED <<tvars, nvars>>

NextQ == Load \/ Fit \/ RangeMasks \/ SignalDrop \/ Histograms \/ Save \/ Conclusion

(***************************************************************************)
(* The inputs of quality.main.                                             *)
(***************************************************************************)
Spatial == <<NVox, 1, 1>>
OneVoxel == <<1, 1, 1>>
Signals == {I(k) : k \in 0..MaxSignal}
Masks(sp) == Arrays(sp, {0, 1})
Const(sp, v) == [shape |-> sp, at |-> [ix \in Idx(sp) |-> v]]

\* gradient tables: b-values 0 and 1000, at least one of each
GradTables ==
    {bv \in [1..NGrad -> {0, 1000}] :
        (\E i \in 1..NGrad : bv[i] = 0) /\ (\E i \in 1..NGrad : bv[i] # 0)}

\* the volume as stored in the file, its gradient axis at position axis
RawVolumes(sp, axis) == Arrays(InsertAt(sp, axis + 1, NGrad), Signals)

\* dipy fits within the mask and returns zeros outside of it: the fields
\* that are e (every eigenvalue), f, d and k within the mask
InMask(mask, ix, v) == IF mask.at[SubSeq(ix, 1, 3)] = 1 THEN v ELSE I(0)
DipyConst(mask, e, f, d, k, flag) ==
    LET sp == mask.shape
    IN  [evals |-> [shape |-> Append(sp, 3),
                    at |-> [ix \in Idx(Append(sp, 3)) |-> InMask(mask, ix, e)]],
         fa |-> [shape |-> sp, at |-> [ix \in Idx(sp) |-> InMask(mask, ix, f)]],
         md |-> [shape |-> sp, at |-> [ix \in Idx(sp) |-> InMask(mask, ix, d)]],
         mk |-> [shape |-> sp, at |-> [ix \in Idx(sp) |-> InMask(mask, ix, k)]],
         mkFlag |-> flag]

\* the defaults of --fa, --md and --mk (lines 102-110)
DefaultFA == <<I(0), I(1)>>
DefaultMD == <<I(0), I(1)>>
DefaultMK == <<I(0), R(3, 10)>>

\* the input files: NIFTI (gradient axis last), or NRRD with the gradient axis
\* its header declares
Sources == {<<"nifti", 3>>} \cup ({"nrrd"} \X (0..3))
AxisLast == {src \in Sources : src[2] = 3}

\* Volumes, masks, gradient tables and axis positions vary; the switches are
\* the defaults and the fitted fields are constant within the mask.
SignalInputs(sp, srcs) ==
    UNION {{[fmt |-> src[1], grad_axis |-> src[2], raw |-> raw, mask |-> mask,
             bvals |-> bv, fa_sw |-> DefaultFA, md_sw |-> DefaultMD,
             mk_sw |-> DefaultMK,
             dipy |-> DipyConst(mask, R(1, 2), R(1, 2), R(1, 2), R(1, 10), flag)] :
               raw \in RawVolumes(sp, src[2]), mask \in Masks(sp),
               bv \in GradTables, flag \in BOOLEAN} : src \in srcs}

\* a NIFTI file holding a 3-D image
NotADwi ==
    [fmt |-> "nifti", grad_axis |-> 3, raw |-> Const(Spatial, I(1)),
     mask |-> Const(Spatial, 1), bvals |-> <<0, 1000>>, fa_sw |-> DefaultFA,
     md_sw |-> DefaultMD, mk_sw |-> DefaultMK, dipy |-> "none"]

\* One fitted field and its switch vary (the switch as typed, low and high
\* in either order), the other fields and switches are the defaults; the
\* volume is a fixed NIFTI image.
FirstB0 == [i \in 1..NGrad |-> IF i = 1 THEN 0 ELSE 1000]
RangeInputs(sp) ==
    LET base(mask, flag, e, f, d, k, fsw, dsw, ksw) ==
            [fmt |-> "nifti", grad_axis |-> 3,
             raw |-> Const(Append(sp, NGrad), I(1)), mask |-> mask,
             bvals |-> FirstB0, fa_sw |-> fsw, md_sw |-> dsw, mk_sw |-> ksw,
             dipy |-> DipyConst(mask, e, f, d, k, flag)]
        h == R(1, 2)
        t == R(1, 10)
    IN  UNION {
          {base(mask, flag, v, h, h, t, DefaultFA, DefaultMD, DefaultMK),
           base(mask, flag, h, v, h, t, sw, DefaultMD, DefaultMK),
           base(mask, flag, h, h, v, t, DefaultFA, sw, DefaultMK),
           base(mask, flag, h, h, h, v, DefaultFA, DefaultMD, sw)} :
             mask \in Masks(sp), flag \in BOOLEAN, v \in Values,
             sw \in Values \X Values}

IdleN ==
    /\ nin = "none" /\ npc = "idle" /\ encoding = "none" /\ out = <<>>
    /\ fstate = "none" /\ stdout = "console" /\ mf = "none" /\ bvecs = "none"
    /\ bvals = "none" /\ b_max = "none" /\ ind = 0 /\ nerr = "none"

(***************************************************************************)
(* nhdr_write.py: read_bvecs, bvec_scaling and main.                       *)
(***************************************************************************)
\* list(map(list, zip(*bvecs))): zip stops at the shortest row
Min2(a, b) == IF a < b THEN a ELSE b
tranpose(rows) ==
    LET n == Min2(Len(rows[1]), Min2(Len(rows[2]), Len(rows[3])))
    IN  [j \in 1..n |-> <<rows[1][j], rows[2][j], rows[3][j]>>]

\* read_bvecs: the file's rows of numbers; a file of 3 rows is taken as 3xN
read_bvecs(rows) == IF Len(rows) = 3 THEN tranpose(rows) ELSE rows

\* np.sqrt of a ratio of perfect squares (the b-values of the model)
ISqrt(n) == CHOOSE r \in 0..n : r * r = n
RSqrt(x) == R(ISqrt(x.n), ISqrt(x.d))

\* norm(bvec) != factor, decided on the squares (both sides are >= 0)
NormSq(v) == RSeqSum([j \in 1..Len(v) |-> RMul(v[j], v[j])])
NormDiffers(v, factor) == NormSq(v) # RMul(factor, factor)

\* a scaling that does not look at the norm of the vector
bvec_scalingAlways(bval, bvec, bmax) ==
    IF bval # 0
    THEN LET factor == RSqrt(RDiv(I(bval), I(bmax)))
         IN  [j \in 1..Len(bvec) |-> RMul(bvec[j], factor)]
    ELSE bvec

\* bvec_scaling: the numbers joined into the gradient line
bvec_scaling(bval, bvec, bmax) ==
    IF bval # 0
    THEN LET factor == RSqrt(RDiv(I(bval), I(bmax)))
         IN  IF NormDiffers(bvec, factor)
             THEN [j \in 1..Len(bvec) |-> RMul(bvec[j], factor)]
             ELSE bvec
    ELSE bvec

\* the keys of np_to_nrrd (lines 98-109)
np_to_nrrd ==
    [n \in {"int8", "int16", "int32", "int64", "uint8", "uint16", "uint32",
            "uint64", "float32", "float64"} |->
        CASE n = "int8" -> "int8"      [] n = "int16" -> "short"
          [] n = "int32" -> "int"      [] n = "int64" -> "longlong"
          [] n = "uint8" -> "uchar"    [] n = "uint16" -> "ushort"
          [] n = "uint32" -> "uint"    [] n = "uint64" -> "ulonglong"
          [] n = "float32" -> "float"  [] n = "float64" -> "double"]

Line(k, v) == [key |-> k, val |-> v]

\* lines 111-115: one print of the magic, the comments, type, dimension, space
HeadLines(typ, dim) ==
    <<Line("NRRD0005", "magic and comments"), Line("type", typ),
      Line("dimension", dim), Line("space", "right-anterior-superior")>>

\* the fixed lines with the data file named first
FixedLinesDataFileFirst(endian, enc) ==
    <<Line("data file", "args.nifti"), Line("byteskip", -1),
      Line("endian", endian), Line("encoding", enc),
      Line("space units", "mm mm mm"), Line("space origin", "qform[0:3,3]")>>

\* lines 120-133
FixedLines(endian, enc) ==
    <<Line("byteskip", -1), Line("endian", endian), Line("encoding", enc),
      Line("space units", "mm mm mm"), Line("space origin", "qform[0:3,3]"),
      Line("data file", "args.nifti")>>

\* lines 136-138 (4-D) and 161-163
GeometryLines(dim) ==
    IF dim = 4
    THEN <<Line("space directions", "qform[0:3,0:3].T none"),
           Line("centerings", "cell cell cell ???"),
           Line("kinds", "space space space list")>>
    ELSE <<Line("space directions", "qform[0:3,0:3].T"),
           Line("centerings", "cell cell cell"),
           Line("kinds", "space space space")>>

NRaise(e) == npc' = "raised" /\ nerr' = e

\* lines 67-90: the arguments are checked and the NIFTI header loaded
NArgs ==
    /\ npc = "args"
    /\ IF nin.ext \notin {".nii.gz", ".nii"}
       THEN NRaise("ValueError") /\ UNCHANGED encoding
       ELSE /\ encoding' = IF nin.ext = ".nii.gz" THEN "gzip" ELSE "raw"
            /\ IF nin.nhdr \notin {"unset", "out.nhdr"}
               THEN NRaise("AttributeError")
               ELSE npc' = "open" /\ UNCHANGED nerr
    /\ UNCHANGED <<nin, out, fstate, stdout, mf, bvecs, bvals, b_max, ind>>
    /\ UNCHANGED <<qvars, tvars>>

\* lines 92-94: f = open(...); console = sys.stdout; sys.stdout = f
NOpen ==
    /\ npc = "open"
    /\ fstate' = "open"
    /\ stdout' = "f"
    /\ npc' = "head"
    /\ UNCHANGED <<nin, encoding, out, mf, bvecs, bvals, b_max, ind, nerr>>
    /\ UNCHANGED <<qvars, tvars>>

\* lines 96-115: np_to_nrrd[dtype.name] raises KeyError for a type that is
\* not in the table, before anything is printed
NPrintHead ==
    /\ npc = "head"
    /\ IF nin.dtype.name \notin DOMAIN np_to_nrrd
       THEN NRaise("KeyError") /\ UNCHANGED out
       ELSE /\ out' = out \o HeadLines(np_to_nrrd[nin.dtype.name], nin.dim)
            /\ npc' = "sizes" /\ UNCHANGED nerr
    /\ UNCHANGED <<nin, encoding, fstate, stdout, mf, bvecs, bvals, b_max, ind>>
    /\ UNCHANGED <<qvars, tvars>>

\* lines 117-118
NPrintSizes ==
    /\ npc = "sizes"
    /\ out' = Append(out, Line("sizes", "hdr['dim'][1:dim+1]"))
    /\ npc' = "fixed"
    /\ UNCHANGED <<nin, encoding, fstate, stdout, mf, bvecs, bvals, b_max, ind, nerr>>
    /\ UNCHANGED <<qvars, tvars>>

\* lines 120-133
NPrintFixed ==
    /\ npc = "fixed"
    /\ out' = out \o FixedLines(IF nin.dtype.byteorder = "<" THEN "little" ELSE "big",
                                encoding)
    /\ npc' = "geometry"
    /\ UNCHANGED <<nin, encoding, fstate, stdout, mf, bvecs, bvals, b_max, ind, nerr>>
    /\ UNCHANGED <<qvars, tvars>>

\* lines 135-138 and 160-163
NPrintGeometry ==
    /\ npc = "geometry"
    /\ out' = out \o GeometryLines(nin.dim)
    /\ npc' = IF nin.dim = 4 THEN "frame" ELSE "close"
    /\ UNCHANGED <<nin, encoding, fstate, stdout, mf, bvecs, bvals, b_max, ind, nerr>>
    /\ UNCHANGED <<qvars, tvars>>

\* lines 140-147: mf is bound for a negative and for a positive determinant
\* only; printing it unbound raises UnboundLocalError
NFrame ==
    /\ npc = "frame"
    /\ IF nin.det = 0
       THEN NRaise("UnboundLocalError") /\ UNCHANGED <<mf, out>>
       ELSE /\ mf' = IF nin.det < 0 THEN "eye(3)" ELSE "diag(-1,1,1)"
            /\ out' = Append(out, Line("measurement frame", mf'))
            /\ npc' = "read" /\ UNCHANGED nerr
    /\ UNCHANGED <<nin, encoding, fstate, stdout, bvecs, bvals, b_max, ind>>
    /\ UNCHANGED <<qvars, tvars>>

\* lines 149-150: open() raises for a file that is not there (TypeError for
\* an argument that was not given)
NReadGrads ==
    /\ npc = "read"
    /\ IF ~nin.bvec.present
       THEN NRaise("FileNotFoundError") /\ UNCHANGED <<bvecs, bvals>>
       ELSE /\ bvecs' = read_bvecs(nin.bvec.rows)
            /\ IF ~nin.bval.present
               THEN NRaise("FileNotFoundError") /\ UNCHANGED bvals
               ELSE /\ bvals' = nin.bval.nums
                    /\ npc' = "modality" /\ UNCHANGED nerr
    /\ UNCHANGED <<nin, encoding, out, fstate, stdout, mf, b_max, ind>>
    /\ UNCHANGED <<qvars, tvars>>

\* lines 152-155: max() of an empty list raises ValueError
NPrintModality ==
    /\ npc = "modality"
    /\ IF bvals = <<>>
       THEN /\ out' = Append(out, Line("modality", "DWMRI"))
            /\ NRaise("ValueError") /\ UNCHANGED b_max
       ELSE /\ b_max' = RMaxSeq([j \in 1..Len(bvals) |-> I(bvals[j])]).n
            /\ out' = out \o <<Line("modality", "DWMRI"),
                               Line("DWMRI_b-value", b_max')>>
            /\ npc' = "gradients" /\ UNCHANGED nerr
    /\ ind' = 0
    /\ UNCHANGED <<nin, encoding, fstate, stdout, mf, bvecs, bvals>>
    /\ UNCHANGED <<qvars, tvars>>

\* lines 156-158: one turn of the loop; bvecs[ind] raises IndexError past
\* the end of bvecs
NGradient ==
    /\ npc = "gradients"
    /\ ind < Len(bvals)
    /\ IF ind + 1 > Len(bvecs)
       THEN NRaise("IndexError") /\ UNCHANGED <<out, ind>>
       ELSE /\ out' = Append(out, [key |-> "DWMRI_gradient", ind |-> ind,
                                   val |-> bvec_scaling(bvals[ind + 1],
                                                        bvecs[ind + 1], b_max)])
            /\ ind' = ind + 1
            /\ UNCHANGED <<npc, nerr>>
    /\ UNCHANGED <<nin, encoding, fstate, stdout, mf, bvecs, bvals, b_max>>
    /\ UNCHANGED <<qvars, tvars>>

\* lines 166-167: f.close(); sys.stdout = console
NClose ==
    /\ \/ npc = "close"
       \/ npc = "gradients" /\ ind = Len(bvals)
    /\ fstate' = "closed"
    /\ stdout' = "console"
    /\ npc' = "done"
    /\ UNCHANGED <<nin, encoding, out, mf, bvecs, bvals, b_max, ind, nerr>>
    /\ UNCHANGED <<qvars, tvars>>

NextN == \/ NArgs \/ NOpen \/ NPrintHead \/ NPrintSizes \/ NPrintFixed
         \/ NPrintGeometry \/ NFrame \/ NReadGrads \/ NPrintModality
         \/ NGradient \/ NClose

StartN(i) ==
    /\ nin = i /\ npc = "args" /\ encoding = "unbound" /\ out = <<>>
    /\ fstate = "none" /\ stdout = "console" /\ mf = "unbound"
    /\ bvecs = "unbound" /\ bvals = "unbound" /\ b_max = "unbound" /\ ind = 0
    /\ nerr = "none"

(***************************************************************************)
(* The inputs of nhdr_write.main.                                          *)
(***************************************************************************)
BValues == {k * k : k \in 0..MaxB}
Comps == {R(k, 2) : k \in 0..MaxComp}
\* b-vectors along x, and the unit vector along y
BVectors == {<<c, I(0), I(0)>> : c \in Comps} \cup {<<I(0), I(1), I(0)>>}

\* the files args.bval and args.bvec name
BvalFile(nums) == [present |-> TRUE, nums |-> nums]
BvecFile(rows) == [present |-> TRUE, rows |-> rows]
NoBvalFile == [present |-> FALSE, nums |-> <<>>]
NoBvecFile == [present |-> FALSE, rows |-> <<>>]

\* a gradient table of n entries, written as n rows of 3 or as 3 rows of n
AsRows(layout, vs) ==
    IF layout = "Nx3" THEN vs
    ELSE [c \in 1..3 |-> [j \in 1..Len(vs) |-> vs[j][c]]]
GradFiles(n) ==
    {[bval |-> BvalFile(bv), bvec |-> BvecFile(AsRows(layout, vs))] :
        bv \in [1..n -> BValues], vs \in [1..n -> BVectors],
        layout \in {"Nx3", "3xN"}}

DTypes == {[name |-> "int16", byteorder |-> "<"],
           [name |-> "float32", byteorder |-> ">"],
           [name |-> "complex64", byteorder |-> "="]}

\* the header of the NIFTI file and the command line vary; the gradient
\* files are absent, empty, of unequal length or a table of two entries
HeaderInputs ==
    LET ex == <<I(1), I(0), I(0)>>
        ey == <<I(0), I(1), I(0)>>
        files == {[bval |-> NoBvalFile, bvec |-> BvecFile(<<ex, ey>>)],
                  [bval |-> BvalFile(<<0, 4>>), bvec |-> NoBvecFile],
                  [bval |-> BvalFile(<<>>), bvec |-> BvecFile(<<>>)],
                  [bval |-> BvalFile(<<0, 4>>), bvec |-> BvecFile(<<ex>>)],
                  [bval |-> BvalFile(<<0, 4>>), bvec |-> BvecFile(<<ex, ey>>)]}
    IN  {[ext |-> e, nhdr |-> o, dtype |-> t, dim |-> d, det |-> s,
          bval |-> f.bval, bvec |-> f.bvec] :
            e \in {".nii.gz", ".nii", ".img"},
            o \in {"unset", "out.nhdr", "out.txt"},
            t \in DTypes, d \in {3, 4}, s \in {-1, 0, 1}, f \in files}

\* gradient tables of 1..MaxN entries vary, in both layouts; the NIFTI file
\* is a 4-D int16 image with a positive determinant
GradInputs ==
    {[ext |-> ".nii.gz", nhdr |-> "unset",
      dtype |-> [name |-> "int16", byteorder |-> "<"], dim |-> 4, det |-> 1,
      bval |-> f.bval, bvec |-> f.bvec] :
        f \in UNION {GradFiles(n) : n \in 1..MaxN}}

Init ==
    /\ \E i \in SignalInputs(Spatial, Sources) \cup {NotADwi} : StartQ(i)
    /\ IdleT
    /\ IdleN

InitDrop ==
    /\ \E i \in SignalInputs(OneVoxel, AxisLast) : StartQ(i)
    /\ IdleT
    /\ IdleN

InitRange ==
    /\ \E i \in RangeInputs(Spatial) : StartQ(i)
    /\ IdleT
    /\ IdleN

Next == NextQ

\* quality.main over volumes, masks, gradient tables and axis positions
Spec == Init /\ [][Next]_vars
\* quality.main over single-voxel volumes whose gradient axis is last
SpecDrop == InitDrop /\ [][Next]_vars
\* quality.main over fitted fields and range switches
SpecRange == InitRange /\ [][Next]_vars
\* direct calls of hist_calc and form_bins
InitHist == IdleQ /\ InitT /\ IdleN
SpecHist == InitHist /\ [][NextT]_vars
\* nhdr_write.main over NIFTI headers and command lines
InitNhdr == IdleQ /\ IdleT /\ \E i \in HeaderInputs : StartN(i)
SpecNhdr == InitNhdr /\ [][NextN]_vars
\* nhdr_write.main over gradient tables
InitGrad == IdleQ /\ IdleT /\ \E i \in GradInputs : StartN(i)
SpecGrad == InitGrad /\ [][NextN]_vars

(***************************************************************************)
(* Claims about the quality pipeline.                                      *)
(***************************************************************************)
\* the signal-drop stage has run to its end
DropDone == pc \in {"hist", "save", "conclusion", "done"}
\* the images have been written
Written == pc \in {"conclusion", "done"}

\* the mask the range-mask contract asks for: 1 exactly where v < low or
\* v > high, for the sorted switch <<low, high>>
RangeMaskOf(field, sw) ==
    LET lh == Sort(sw)
    IN  [shape |-> field.shape,
         at |-> [ix \in DOMAIN field.at |->
                   IF RLt(field.at[ix], lh[1]) \/ RGt(field.at[ix], lh[2])
                   THEN 1 ELSE 0]]
\* the images written under the given file name suffix
SavedAs(name) == {saved[j].img : j \in {k \in 1..Len(saved) : saved[k].name = name}}

\* C1: once the images are written, the FA, MD and (when kurtosis is fitted)
\* MK range masks that were written and are summarised are 1 exactly at the
\* voxels with v < low or v > high for the configured sorted interval.
C1_RangeMasksFollowSwitches ==
    Written =>
        /\ fa_mask = RangeMaskOf(fa, inp.fa_sw)
        /\ SavedAs("_FA_mask") = {RangeMaskOf(fa, inp.fa_sw)}
        /\ md_mask = RangeMaskOf(md, inp.md_sw)
        /\ SavedAs("_MD_mask") = {RangeMaskOf(md, inp.md_sw)}
        /\ mkFlag => /\ mk_mask = RangeMaskOf(mk, inp.mk_sw)
                     /\ SavedAs("_MK_mask") = {RangeMaskOf(mk, inp.mk_sw)}

\* the voxel's b0 values and diffusion-weighted values in the masked volume
B0Values(ix) == [j \in 1..Len(Where_b0s(inp.bvals)) |->
                    data.at[Append(ix, Where_b0s(inp.bvals)[j])]]
DwiValues(ix) == {data.at[Append(ix, Where_dwi(inp.bvals)[j])] :
                    j \in 1..Len(Where_dwi(inp.bvals))}
\* the mean of the voxel's b0 values
B0Mean(ix) == RDiv(RSeqSum(B0Values(ix)), I(Len(B0Values(ix))))
\* that mean, raised to 1 when it is below 1
B0Clamped(ix) == IF RLt(B0Mean(ix), I(1)) THEN I(1) ELSE B0Mean(ix)

FlaggedInMask(m) ==
    Cardinality({ix \in Idx(inp.mask.shape) : inp.mask.at[ix] = 1 /\ m.at[ix] = 1})
IsPercentOf(p, m) ==
    /\ p = Percent(FlaggedInMask(m), ArrSum(inp.mask))
    /\ RLe(I(0), p) /\ RLe(p, I(100))

\* C5: for input with the gradient axis last and a non-empty mask, every
\* percentage of the conclusion is flagged mask-included voxels over
\* mask-included voxels, times 100, and so within 0..100.
C5_PercentOfMaskVoxels ==
    (pc = "done" /\ grad_axis = 3 /\ ArrSum(inp.mask) > 0) =>
        /\ IsPercentOf(summary.below_b0, minOverGradsNegativeMask)
        /\ IsPercentOf(summary.neg_eval, evals_zero_mask)
        /\ IsPercentOf(summary.fa, fa_mask)
        /\ IsPercentOf(summary.md, md_mask)
        /\ mkFlag => IsPercentOf(summary.mk, mk_mask)

\* C10: whatever axis the NRRD header declares for the gradients, the
\* signal-drop stage ends without an exception and gives the ratio field and
\* mask of the same volume with its gradient axis last.
C10_AxisIndependent ==
    (inp.fmt = "nrrd" /\ pc \in {"raised", "hist", "save", "conclusion", "done"}) =>
        /\ err = "none"
        /\ minOverGrads = SignalDropCalc(data, inp.bvals, 3).minOverGrads
        /\ minOverGradsNegativeMask = SignalDropCalc(data, inp.bvals, 3).mask

(***************************************************************************)
(* Claims about hist_calc and form_bins.                                   *)
(***************************************************************************)
HistReturned == tpc = "returned" /\ tcall.fn = "hist_calc"
BinsReturned == tpc = "returned" /\ tcall.fn = "form_bins"
StrictlyIncreasing(s) == \A i \in 1..(Len(s) - 1) : RLt(s[i], s[i + 1])
NonEmpty(a) == DOMAIN a.at # {}
AllZero(a) == \A ix \in DOMAIN a.at : a.at[ix] = I(0)
ZeroBins == <<I(-inf), I(0), I(inf)>>

\* C2: for a non-empty field and a strictly increasing edge list the
\* densities hist_calc returns sum to 1, and no density it returns is NaN
\* (a NaN from a division by zero is replaced by 0).
C2_DensitiesSumToOne ==
    HistReturned =>
        /\ (NonEmpty(tcall.a) /\ StrictlyIncreasing(tcall.bins))
              => RSeqSum(tret) = I(1)
        /\ \A i \in 1..Len(tret) : ~IsNaN(tret[i])

ContractBins(low, high) ==
    IF low.n * high.n < 0
    THEN Ascending({low, high, I(0)}
                   \cup (IF RGt(high, I(1)) THEN {I(1)} ELSE {})
                   \cup (IF RLt(low, I(-1)) THEN {I(-1)} ELSE {}))
    ELSE <<low, R(low.n * high.d + high.n * low.d, 2 * low.d * high.d), high>>

\* C6 as stated: for every interval with low <= high the edge list returned
\* is strictly increasing and is the contract's list.
C6_StrictForAllIntervals ==
    BinsReturned =>
        /\ StrictlyIncreasing(tret.ret)
        /\ tret.ret = ContractBins(tcall.interval[1], tcall.interval[2])

\* C6 amended: the edge list returned is the contract's list for every
\* interval with low <= high; it is strictly increasing when low < high, and
\* it is [low, low, low] when low = high.
C6_StrictForProperIntervals ==
    BinsReturned =>
        LET low == tcall.interval[1]
            high == tcall.interval[2]
        IN  /\ tret.ret = ContractBins(low, high)
            /\ Len(tret.ret) \in 3..5
            /\ RLt(low, high) => StrictlyIncreasing(tret.ret)
            /\ low = high => tret.ret = <<low, low, low>>
            /\ tcall.interval = <<I(-1), I(2)>> => tret.ret = <<I(-1), I(0), I(1), I(2)>>
            /\ tcall.interval = <<I(0), I(1)>> => tret.ret = <<I(0), R(1, 2), I(1)>>

C6_Witness ==
    /\ BinsReturned
    /\ tcall.interval = <<I(-1), I(2)>>
    /\ tret.ret = <<I(-1), I(0), I(1), I(2)>>

(***************************************************************************)
(* Claims about the header writer.                                         *)
(***************************************************************************)
Keys(lines) == [j \in 1..Len(lines) |-> lines[j].key]
IsPrefix(p, q) == Len(p) <= Len(q) /\ \A j \in 1..Len(p) : p[j] = q[j]
GradientLines == SelectSeq(out, LAMBDA l : l.key = "DWMRI_gradient")
Repeat(x, n) == [j \in 1..n |-> x]

\* the position of a section in the order the specification lists
ListedRank(k) ==
    CASE k = "type" -> 1               [] k = "dimension" -> 2
      [] k = "space" -> 3              [] k = "sizes" -> 4
      [] k = "space directions" -> 5   [] k = "centerings" -> 6
      [] k = "kinds" -> 7              [] k = "byteskip" -> 8
      [] k = "endian" -> 9             [] k = "encoding" -> 10
      [] k = "space units" -> 11       [] k = "space origin" -> 12
      [] k = "data file" -> 13         [] k = "modality" -> 14
      [] k = "DWMRI_b-value" -> 15     [] k = "DWMRI_gradient" -> 16
      [] OTHER -> 0

\* C7 as stated: among the listed sections no line of a later section is
\* written before a line of an earlier one, and modality, maximum b-value
\* and gradient lines are written for 4-D input only.
C7_ListedOrder ==
    /\ \A i, j \in 1..Len(out) :
          (i < j /\ ListedRank(out[i].key) > 0 /\ ListedRank(out[j].key) > 0)
              => ListedRank(out[i].key) <= ListedRank(out[j].key)
    /\ nin.dim # 4 => \A i \in 1..Len(out) : ListedRank(out[i].key) < 14

\* the keys in the order main prints them, for n gradient-table entries
PrintedOrder(dim, n) ==
    <<"NRRD0005", "type", "dimension", "space", "sizes", "byteskip", "endian",
      "encoding", "space units", "space origin", "data file",
      "space directions", "centerings", "kinds">>
    \o (IF dim = 4
        THEN <<"measurement frame", "modality", "DWMRI_b-value">>
             \o Repeat("DWMRI_gradient", n)
        ELSE <<>>)

\* C7 amended: the lines are always written in the order type, dimension,
\* space, sizes, byteskip, endian, encoding, space units, space origin, data
\* file, space directions, centerings, kinds and then, for 4-D input only,
\* measurement frame, modality, maximum b-value and one gradient line per
\* entry in table order; a run that ends normally has written all of them.
C7_PrintedOrder ==
    LET want == PrintedOrder(nin.dim, Len(nin.bval.nums))
    IN  /\ IsPrefix(Keys(out), want)
        /\ npc = "done" => Keys(out) = want
        /\ \A j \in 1..Len(GradientLines) : GradientLines[j].ind = j - 1

C7_Witness ==
    /\ npc = "done" /\ nin.dim = 4
    /\ Len(GradientLines) = 2

\* C9: once the header file has been opened, main ends (normally or with an
\* exception) with the file closed and sys.stdout restored.
C9_ClosedOnEveryExit ==
    (npc \in {"done", "raised"} /\ fstate # "none")
        => (fstate = "closed" /\ stdout = "console")

\* the gradient table as given: b-values, b-vectors as read, largest b-value
GivenBvals == nin.bval.nums
GivenBvecs == read_bvecs(nin.bvec.rows)
GivenBmax == CHOOSE m \in {GivenBvals[j] : j \in 1..Len(GivenBvals)} :
                \A j \in 1..Len(GivenBvals) : GivenBvals[j] <= m
\* v * sqrt(b / b_max)
Rescaled(v, b) ==
    LET q == R(b, GivenBmax)
        factor == R(ISqrt(q.n), ISqrt(q.d))
    IN  <<RMul(v[1], factor), RMul(v[2], factor), RMul(v[3], factor)>>
\* |v| = sqrt(b / b_max)
AlreadyScaled(v, b) ==
    RAdd(RMul(v[1], v[1]), RAdd(RMul(v[2], v[2]), RMul(v[3], v[3])))
        = R(b, GivenBmax)

\* C8 as stated: a run over 4-D input writes one gradient line per entry;
\* line i is the b-vector times sqrt(b_i / b_max) for every entry with
\* b_i # 0, and the b-vector itself only when b_i = 0.
C8_ScaledUnlessZero ==
    npc = "done" =>
        /\ Len(GradientLines) = Len(GivenBvals)
        /\ \A j \in 1..Len(GradientLines) :
              GradientLines[j].val =
                  IF GivenBvals[j] = 0 THEN Tup(GivenBvecs[j])
                  ELSE Rescaled(GivenBvecs[j], GivenBvals[j])

\* C8 amended: line i is the b-vector itself when b_i = 0 and also when the
\* b-vector's norm already equals sqrt(b_i / b_max); it is the b-vector times
\* sqrt(b_i / b_max) for every other entry.  An entry with b_i = b_max is
\* written with the values it was given.
C8_ScaledUnlessZeroOrScaled ==
    npc = "done" =>
        /\ Len(GradientLines) = Len(GivenBvals)
        /\ \A j \in 1..Len(GradientLines) :
              /\ GradientLines[j].val =
                    IF GivenBvals[j] = 0 \/ AlreadyScaled(GivenBvecs[j], GivenBvals[j])
                    THEN Tup(GivenBvecs[j])
                    ELSE Rescaled(GivenBvecs[j], GivenBvals[j])
              /\ GivenBvals[j] = GivenBmax => GradientLines[j].val = Tup(GivenBvecs[j])

\* an entry below b_max whose norm already was sqrt(b_i / b_max) and an entry
\* at b_max have both been written as given
C8_Witness ==
    /\ npc = "done"
    /\ \E j, k \in 1..Len(GradientLines) :
          /\ GivenBvals[j] # 0 /\ GivenBvals[j] # GivenBmax
          /\ AlreadyScaled(GivenBvecs[j], GivenBvals[j])
          /\ GradientLines[j].val = Tup(GivenBvecs[j])
          /\ GivenBvals[k] = GivenBmax
          /\ GradientLines[k].val = Tup(GivenBvecs[k])

====
